---- MODULE Spec2Model ----
(***************************************************************************)
(* Model of the four command-line scripts of the repository:              *)
(*   generate_uninvited_list.py  ("gen")                                   *)
(*   verify_test_invites.py      ("verify")                                *)
(*   send_invites.py             ("send")                                  *)
(*   preview_payload.py          ("preview")                               *)
(* A run is one execution of one script's main().  Strings the code       *)
(* manipulates character by character (cells, headers, the operator's     *)
(* answer) are sequences of one-character strings.                        *)
(***************************************************************************)
EXTENDS Integers, Sequences, FiniteSets, TLC

\* Largest number of rows of an input table.
MaxRows == 2

-----------------------------------------------------------------------------
\* Python string primitives

UpperLetters == <<"A","B","C","D","E","F","G","H","I","J","K","L","M",
                  "N","O","P","Q","R","S","T","U","V","W","X","Y","Z">>
LowerLetters == <<"a","b","c","d","e","f","g","h","i","j","k","l","m",
                  "n","o","p","q","r","s","t","u","v","w","x","y","z">>

\* str.isspace() characters that occur in the inputs
Whitespace == {" ", "\t", "\n"}

LowerChar(c) ==
    IF \E i \in 1..26 : UpperLetters[i] = c
    THEN LowerLetters[CHOOSE i \in 1..26 : UpperLetters[i] = c]
    ELSE c

\* str.lower()
Lower(s) == [i \in 1..Len(s) |-> LowerChar(s[i])]

\* str.strip(): drop leading and trailing whitespace
Strip(s) ==
    LET keep == {i \in 1..Len(s) : s[i] \notin Whitespace}
    IN  IF keep = {} THEN <<>>
        ELSE LET lo == CHOOSE i \in keep : \A j \in keep : i <= j
                 hi == CHOOSE i \in keep : \A j \in keep : j <= i
             IN  SubSeq(s, lo, hi)

\* sub in s
Contains(sub, s) ==
    \E i \in 1..(Len(s) - Len(sub) + 1) : SubSeq(s, i, i + Len(sub) - 1) = sub

\* Split1 cutting at the last space instead of the first
SplitLast(s) ==
    LET sp == {i \in 1..Len(s) : s[i] = " "}
    IN  IF sp = {} THEN <<s>>
        ELSE LET k == CHOOSE i \in sp : \A j \in sp : j <= i
             IN  <<SubSeq(s, 1, k - 1), SubSeq(s, k + 1, Len(s))>>

\* s.split(' ', 1): the list of one or two parts
Split1(s) ==
    LET sp == {i \in 1..Len(s) : s[i] = " "}
    IN  IF sp = {} THEN <<s>>
        ELSE LET k == CHOOSE i \in sp : \A j \in sp : i <= j
             IN  <<SubSeq(s, 1, k - 1), SubSeq(s, k + 1, Len(s))>>

\* pandas' missing value (a float NaN cell) and Python's None
NaN  == <<"<NaN>">>
None == <<"<None>">>

\* pd.notna(x)
NotNa(x) == x # NaN

\* str(x) of a cell: a NaN cell prints as 'nan', a string as itself
Str(x) == IF x = NaN THEN <<"n","a","n">> ELSE x

\* Python truthiness of an optional string: `not s`
Falsy(s) == s = None \/ s = <<>>

s_nan   == <<"n","a","n">>
s_Name  == <<"N","a","m","e">>
s_Email == <<"E","m","a","i","l">>
s_email == <<"e","m","a","i","l">>
s_EMAIL == <<"E","M","A","I","L">>
s_yes   == <<"y","e","s">>

-----------------------------------------------------------------------------
\* Inputs of a run: the input table, the settings, the remote responses

\* Cells of a name column and of an email column, as pandas hands them over
NameCells  == {NaN, <<"A"," ","b">>, <<" ","A"," "," ","b"," ">>}
EmailCells == {NaN, <<" ">>, <<" ","N","a","n">>,
               <<" ","A","@","x"," ">>, <<"b","@","x">>}

\* Column layouts of the input table
Layouts == {<<s_Name, s_Email>>, <<s_Email>>, <<s_Name>>, <<s_Name, s_EMAIL>>}

CellsFor(header) ==
    IF Contains(s_email, Lower(header)) THEN EmailCells ELSE NameCells

RowsOf(cols) ==
    {r \in [1..Len(cols) -> NameCells \cup EmailCells] :
        \A i \in 1..Len(cols) : r[i] \in CellsFor(cols[i])}

SeqsUpTo(S, n) == UNION {[1..k -> S] : k \in 0..n}

\* The data frames read_csv / read_excel can return
Tables ==
    UNION {{[columns |-> cols, rows |-> rs] : rs \in SeqsUpTo(RowsOf(cols), MaxRows)} :
           cols \in Layouts}

NoTable == [columns |-> <<>>, rows |-> <<>>]

\* Settings: the process environment and the parsed key=value file
Keys     == {"API_KEY", "PENNSIEVE_HOST", "ORG_ID"}
Absent   == <<"<absent>">>
EnvVals  == {Absent, <<>>, <<"k">>}
FileVals == {Absent, <<"k">>}
Envs     == [Keys -> EnvVals]
EnvFiles == [Keys -> FileVals]

\* env_vars.get(key): None when the file has no such key
FileGet(file, key) == IF file[key] = Absent THEN None ELSE file[key]

\* os.environ.get(key, env_vars.get(key))
Setting(env, file, key) ==
    IF env[key] = Absent THEN FileGet(file, key) ELSE env[key]

\* Members of the remote organization as the membership endpoint lists them
NoKey == <<"<nokey>">>
Member(e, r) == [email |-> e, firstName |-> <<"F">>, lastName |-> NoKey, role |-> r]

MemberLists ==
    { <<>>,
      << Member(<<"A","@","x">>, <<"m">>) >>,
      << Member(NoKey, <<"m">>), Member(<<"b","@","x">>, NoKey),
         Member(<<"N","a","N">>, <<"m">>) >>,
      << Member(<<" ","a","@","x">>, <<"m">>), Member(<<"b","@","x">>, <<"m">>),
         Member(<<"B","@","x">>, <<"v">>) >> }

\* What requests.get / requests.post can come back with: a transport error,
\* or a response with a status and a body that parses as JSON or does not
TransportError == [kind |-> "error", status |-> 0, isJson |-> FALSE, json |-> <<>>]
Response(st, js) == [kind |-> "response", status |-> st, isJson |-> TRUE, json |-> js]
BadBody(st) == [kind |-> "response", status |-> st, isJson |-> FALSE, json |-> <<>>]
NoResponse == [kind |-> "none", status |-> 0, isJson |-> FALSE, json |-> <<>>]
JsonObj == <<"<object>">>

GetOutcomes ==
    {TransportError}
    \cup {Response(200, ml) : ml \in MemberLists}
    \cup {BadBody(200), BadBody(302), BadBody(404), BadBody(500),
          Response(302, << Member(<<"A","@","x">>, <<"m">>) >>)}

PostOutcomes ==
    {TransportError, Response(200, JsonObj), BadBody(201),
     Response(302, JsonObj), Response(404, JsonObj), BadBody(500)}

\* response.raise_for_status(): HTTPError for 4xx and 5xx
RaisesForStatus(o) == o.status >= 400 /\ o.status < 600

\* The operator's answers to the confirmation prompt
Answers == {s_yes, <<"Y","E","S">>, <<"n","o">>, <<>>, <<" ","y","e","s">>}

-----------------------------------------------------------------------------
VARIABLES
    script,          \* which script this run executes
    pc,              \* position in main()
    term,            \* "running", "returned", "exit1" (sys.exit(1)), "uncaught"
    api_key, pennsieve_host, org_id, permission,
    df,              \* the loaded data frame
    email_col,       \* gen: index of the email column, 0 before it is found
    answer,          \* send: the operator's answer, None before the prompt
    existing_members,\* set of lower-cased member emails
    member_details,  \* verify: email -> [name, role]
    uninvited_mask, invited_count, uninvited_count,   \* gen
    already_members, not_members,                     \* verify
    invites,         \* send, preview: the prepared invites
    payload,         \* send, preview: the payload built from the invites
    result,          \* send: what send_invites_batch returned
    response,        \* what the last requests.get / requests.post came back with
    net,             \* network calls issued, in order
    out,             \* lines printed, in order
    file             \* the CSV written by gen

vars == <<script, pc, term, api_key, pennsieve_host, org_id, permission, df,
          email_col, answer, existing_members, member_details, uninvited_mask,
          invited_count, uninvited_count, already_members, not_members,
          invites, payload, result, response, net, out, file>>

Scripts == {"gen", "verify", "send", "preview"}

NoFile   == [header |-> <<>>, rows |-> <<>>, written |-> FALSE]
NoResult == [success |-> FALSE, set |-> FALSE]
NoPayload == [invites |-> <<>>, role |-> "", built |-> FALSE]

\* One printed line: its kind and the values it shows
Ev(k, a) == [k |-> k, a |-> a]

Init ==
    /\ script \in Scripts
    /\ pc = "start"
    /\ term = "running"
    /\ api_key = None /\ pennsieve_host = None /\ org_id = None
    /\ permission = "manager"
    /\ df = NoTable
    /\ email_col = 0
    /\ answer = None
    /\ existing_members = {}
    /\ member_details = <<>>
    /\ uninvited_mask = <<>> /\ invited_count = 0 /\ uninvited_count = 0
    /\ already_members = <<>> /\ not_members = <<>>
    /\ invites = <<>>
    /\ payload = NoPayload
    /\ result = NoResult
    /\ response = NoResponse
    /\ net = <<>>
    /\ out = <<>>
    /\ file = NoFile

\* sys.exit(1) after printing msg
Exit1(msg) ==
    /\ out' = Append(out, Ev(msg, <<>>))
    /\ term' = "exit1"
    /\ pc' = "done"

\* an exception nothing catches: traceback, exit status 1
Uncaught ==
    /\ term' = "uncaught"
    /\ pc' = "done"

\* row.get(name, default)
RowGet(d, row, name, default) ==
    IF \E i \in 1..Len(d.columns) : d.columns[i] = name
    THEN row[CHOOSE i \in 1..Len(d.columns) : d.columns[i] = name]
    ELSE default

-----------------------------------------------------------------------------
\* generate_uninvited_list.py

\* Variables only verify, send and preview write
notGen == <<pennsieve_host, permission, answer, member_details, already_members,
            not_members, invites, payload, result>>

\* The built-in organization of the uninvited-list script
GenOrgId == <<"N",":","o","r","g">>
GenHost  == <<"a","p","i",".","p","e","n","n","s","i","e","v","e",".","i","o">>

\* main(), settings: API_KEY is the one required setting
GenConfig ==
    /\ script = "gen" /\ pc = "start"
    /\ \E env \in Envs, envfile \in EnvFiles :
          /\ api_key' = Setting(env, envfile, "API_KEY")
          /\ org_id' = GenOrgId
          /\ IF Falsy(api_key')
             THEN Exit1("ERROR: API_KEY not set")
             ELSE /\ pc' = "input"
                  /\ UNCHANGED <<term, out>>
    /\ UNCHANGED <<script, df, email_col, existing_members, uninvited_mask,
                   invited_count, uninvited_count, net, file>>
    /\ UNCHANGED <<notGen, response>>

\* the first column whose lower-cased header contains 'email', 0 if none
FindEmailCol(cols) ==
    LET hits == {i \in 1..Len(cols) : Contains(s_email, Lower(cols[i]))}
    IN  IF hits = {} THEN 0 ELSE CHOOSE i \in hits : \A j \in hits : i <= j

\* main(), input: find the Excel file, load it, find the email column
GenLoad ==
    /\ script = "gen" /\ pc = "input"
    /\ \/ \* ./data/input does not exist: os.listdir raises
          /\ Uncaught
          /\ UNCHANGED <<df, email_col, out>>
       \/ \* no .xlsx file in the directory
          /\ Exit1("ERROR: No Excel files found")
          /\ UNCHANGED <<df, email_col>>
       \/ \E t \in Tables :
             /\ df' = t
             /\ email_col' = FindEmailCol(t.columns)
             /\ IF email_col' = 0
                THEN \* load_registration_list has printed the row count
                     \* before the search for the email column fails
                     /\ out' = out \o << Ev("Loaded rows", <<Len(t.rows)>>),
                                         Ev("ERROR: Could not find email column", <<>>) >>
                     /\ term' = "exit1"
                     /\ pc' = "done"
                ELSE /\ pc' = "fetch"
                     /\ out' = Append(out, Ev("Loaded rows", <<Len(t.rows)>>))
                     /\ term' = term
    /\ UNCHANGED <<script, api_key, org_id, existing_members, uninvited_mask,
                   invited_count, uninvited_count, net, file>>
    /\ UNCHANGED <<notGen, response>>

\* get_existing_members: the set of lower-cased emails of the members that
\* have an 'email' key
GenExistingEmails(members) ==
    {Lower(members[i].email) : i \in {j \in 1..Len(members) : members[j].email # NoKey}}

Call(method, host, org, body) ==
    [method |-> method, host |-> host, org |-> org, body |-> body]

\* get_existing_members(org_id, api_key)
GenFetch ==
    /\ script = "gen" /\ pc = "fetch"
    /\ net' = Append(net, Call("GET", GenHost, org_id, None))
    /\ \E o \in GetOutcomes :
          /\ response' = o
          /\ IF o.kind = "error" \/ RaisesForStatus(o)
             THEN /\ Exit1("Error fetching members")
                  /\ UNCHANGED existing_members
             ELSE IF ~o.isJson
             THEN \* response.json() raises: a RequestException from requests
                  \* 2.27 on, a plain ValueError before
                  /\ \/ Exit1("Error fetching members")
                     \/ Uncaught /\ UNCHANGED out
                  /\ UNCHANGED existing_members
             ELSE /\ existing_members' = GenExistingEmails(o.json)
                  /\ out' = Append(out, Ev("Found existing members",
                                           <<Cardinality(existing_members')>>))
                  /\ pc' = "classify"
                  /\ term' = term
    /\ UNCHANGED <<script, api_key, org_id, df, email_col, uninvited_mask,
                   invited_count, uninvited_count, file>>
    /\ UNCHANGED notGen

\* line 123: the email of a row as the loop of the uninvited-list script reads it
GenEmail(cell) == IF NotNa(cell) THEN Lower(Strip(Str(cell))) ELSE None

\* line 125: the row has no usable email
GenNoEmail(email) == Falsy(email) \/ email = s_nan \/ email = <<>>

\* GenStep with the counters updated before the test for a missing email
GenStepCountsSkipped(st, cell, members) ==
    LET email == GenEmail(cell)
        is_uninvited == email \notin members
    IN  [mask      |-> Append(st.mask, ~GenNoEmail(email) /\ is_uninvited),
         invited   |-> IF is_uninvited THEN st.invited ELSE st.invited + 1,
         uninvited |-> IF is_uninvited THEN st.uninvited + 1 ELSE st.uninvited]

\* one iteration of the loop of lines 122-134 on the loop's state
GenStep(st, cell, members) ==
    LET email == GenEmail(cell)
    IN  IF GenNoEmail(email)
        THEN [st EXCEPT !.mask = Append(@, FALSE)]
        ELSE LET is_uninvited == email \notin members
             IN  [mask      |-> Append(st.mask, is_uninvited),
                  invited   |-> IF is_uninvited THEN st.invited ELSE st.invited + 1,
                  uninvited |-> IF is_uninvited THEN st.uninvited + 1 ELSE st.uninvited]

RECURSIVE GenLoop(_, _, _, _)
GenLoop(st, rows, col, members) ==
    IF rows = <<>> THEN st
    ELSE GenLoop(GenStep(st, Head(rows)[col], members), Tail(rows), col, members)

\* main(), lines 117-138: classify every row
GenClassify ==
    /\ script = "gen" /\ pc = "classify"
    /\ LET st == GenLoop([mask |-> <<>>, invited |-> 0, uninvited |-> 0],
                         df.rows, email_col, existing_members)
       IN  /\ uninvited_mask' = st.mask
           /\ invited_count' = st.invited
           /\ uninvited_count' = st.uninvited
           /\ out' = out \o << Ev("Already invited", <<st.invited>>),
                               Ev("Not yet invited", <<st.uninvited>>) >>
    /\ pc' = "report"
    /\ UNCHANGED <<script, term, api_key, org_id, df, email_col, existing_members,
                   net, file>>
    /\ UNCHANGED <<notGen, response>>

\* MaskRows collecting the selected rows in front of the rest (reversed order)
RECURSIVE MaskRowsReversed(_, _)
MaskRowsReversed(rows, mask) ==
    IF rows = <<>> THEN <<>>
    ELSE MaskRowsReversed(Tail(rows), Tail(mask))
         \o (IF Head(mask) THEN <<Head(rows)>> ELSE <<>>)

\* df[uninvited_mask]: the rows whose mask entry is True, in order
RECURSIVE MaskRows(_, _)
MaskRows(rows, mask) ==
    IF rows = <<>> THEN <<>>
    ELSE (IF Head(mask) THEN <<Head(rows)>> ELSE <<>>)
         \o MaskRows(Tail(rows), Tail(mask))

\* to_csv(index=False) of one cell: a missing value is written as an empty field
CsvField(cell) == IF cell = NaN THEN <<>> ELSE cell

\* to_csv(index=False): the header line and one line per row
ToCsv(cols, rows) ==
    [header  |-> cols,
     rows    |-> [i \in 1..Len(rows) |-> [j \in 1..Len(cols) |-> CsvField(rows[i][j])]],
     written |-> TRUE]

\* main(), lines 140-162: the summary and the output file
GenWrite ==
    /\ script = "gen" /\ pc = "report"
    /\ LET uninvited_df == MaskRows(df.rows, uninvited_mask)
           summary == << Ev("Total registrations", <<Len(df.rows)>>),
                         Ev("Total members", <<Cardinality(existing_members)>>),
                         Ev("Registrations already in workspace", <<invited_count>>),
                         Ev("Registrations needing invites", <<Len(uninvited_df)>>) >>
       IN  IF Len(uninvited_df) = 0
           THEN /\ out' = out \o summary \o <<Ev("No uninvited members found!", <<>>)>>
                /\ file' = file
           ELSE /\ file' = ToCsv(df.columns, uninvited_df)
                /\ out' = out \o summary \o <<Ev("saved", <<>>)>>
    /\ pc' = "done"
    /\ term' = "returned"
    /\ UNCHANGED <<script, api_key, org_id, df, email_col, existing_members,
                   uninvited_mask, invited_count, uninvited_count, net>>
    /\ UNCHANGED <<notGen, response>>

-----------------------------------------------------------------------------
\* verify_test_invites.py

\* Variables only gen, send and preview write
notVerify == <<permission, email_col, answer, uninvited_mask, invited_count,
               uninvited_count, invites, payload, result, file>>

\* main(), settings: API_KEY, PENNSIEVE_HOST and ORG_ID are required
VerifyConfig ==
    /\ script = "verify" /\ pc = "start"
    /\ \E env \in Envs, envfile \in EnvFiles :
          /\ api_key' = Setting(env, envfile, "API_KEY")
          /\ pennsieve_host' = Setting(env, envfile, "PENNSIEVE_HOST")
          /\ org_id' = Setting(env, envfile, "ORG_ID")
          /\ IF Falsy(api_key') THEN Exit1("ERROR: API_KEY not set")
             ELSE IF Falsy(pennsieve_host') THEN Exit1("ERROR: PENNSIEVE_HOST not set")
             ELSE IF Falsy(org_id') THEN Exit1("ERROR: ORG_ID not set")
             ELSE /\ pc' = "input"
                  /\ UNCHANGED <<term, out>>
    /\ UNCHANGED <<script, df, existing_members, member_details, already_members,
                   not_members, response, net>>
    /\ UNCHANGED notVerify

\* main(), input: the CSV must exist and is read
VerifyLoad ==
    /\ script = "verify" /\ pc = "input"
    /\ \/ /\ Exit1("ERROR: CSV file not found")
          /\ UNCHANGED df
       \/ \E t \in Tables :
             /\ df' = t
             /\ out' = Append(out, Ev("Found participants", <<Len(t.rows)>>))
             /\ pc' = "fetch"
             /\ term' = term
    /\ UNCHANGED <<script, api_key, pennsieve_host, org_id, existing_members,
                   member_details, already_members, not_members, response, net>>
    /\ UNCHANGED notVerify

\* member.get(key, default)
MemberGet(m, key, default) == IF m[key] = NoKey THEN default ELSE m[key]

s_NA == <<"N","/","A">>

\* get_existing_members, lines 36-45: the emails and, per email, the details
\* of the last member listed with it
VerifyExistingEmails(members) ==
    {Lower(members[i].email) : i \in {j \in 1..Len(members) : members[j].email # NoKey}}

VerifyMemberDetails(members) ==
    [e \in VerifyExistingEmails(members) |->
        LET js   == {j \in 1..Len(members) :
                        members[j].email # NoKey /\ Lower(members[j].email) = e}
            last == CHOOSE j \in js : \A k \in js : k <= j
            m    == members[last]
        IN  [name |-> Strip(MemberGet(m, "firstName", <<>>) \o <<" ">>
                            \o MemberGet(m, "lastName", <<>>)),
             role |-> MemberGet(m, "role", s_NA)]]

\* get_existing_members(base_url, org_id, api_key)
VerifyFetch ==
    /\ script = "verify" /\ pc = "fetch"
    /\ net' = Append(net, Call("GET", pennsieve_host, org_id, None))
    /\ \E o \in GetOutcomes :
          /\ response' = o
          /\ IF o.kind = "error" \/ RaisesForStatus(o)
             THEN /\ Exit1("Error fetching members")
                  /\ UNCHANGED <<existing_members, member_details>>
             ELSE IF ~o.isJson
             THEN /\ \/ Exit1("Error fetching members")
                     \/ Uncaught /\ UNCHANGED out
                  /\ UNCHANGED <<existing_members, member_details>>
             ELSE /\ existing_members' = VerifyExistingEmails(o.json)
                  /\ member_details' = VerifyMemberDetails(o.json)
                  /\ out' = Append(out, Ev("Found existing members",
                                           <<Cardinality(existing_members')>>))
                  /\ pc' = "classify"
                  /\ term' = term
    /\ UNCHANGED <<script, api_key, pennsieve_host, org_id, df, already_members,
                   not_members>>
    /\ UNCHANGED notVerify

\* lines 111-112: the email and the name of a row as the verification loop reads them
VerifyEmail(d, row) == Lower(Strip(Str(RowGet(d, row, s_Email, <<>>))))
RowName(d, row)     == Strip(Str(RowGet(d, row, s_Name, <<>>)))

\* VerifyNoEmail without the test for the string 'nan'
VerifyNoEmailBlankOnly(email) == Falsy(email)

\* line 114: the row has no usable email
VerifyNoEmail(email) == Falsy(email) \/ email = s_nan

\* one iteration of the loop of lines 110-129 for the row at 0-based index idx
VerifyStep(st, d, idx, members, details) ==
    LET row   == d.rows[idx + 1]
        email == VerifyEmail(d, row)
        name  == RowName(d, row)
    IN  IF VerifyNoEmail(email)
        THEN [st EXCEPT !.out = Append(@, Ev("Skipping row", <<idx + 1>>))]
        ELSE IF email \in members
        THEN [st EXCEPT
                !.already = Append(@, [name |-> name, email |-> email,
                                       member_info |-> details[email]]),
                !.out = @ \o << Ev("ALREADY A MEMBER", <<name, email>>),
                                Ev("Role", <<details[email].role>>) >>]
        ELSE [st EXCEPT
                !.notm = Append(@, [name |-> name, email |-> email]),
                !.out = @ \o << Ev("NOT A MEMBER", <<name, email>>),
                                Ev("Can be invited", <<>>) >>]

RECURSIVE VerifyLoop(_, _, _, _, _)
VerifyLoop(st, d, idx, members, details) ==
    IF idx >= Len(d.rows) THEN st
    ELSE VerifyLoop(VerifyStep(st, d, idx, members, details), d, idx + 1,
                    members, details)

\* main(), lines 102-146: classify every row and print the summary
VerifyClassify ==
    /\ script = "verify" /\ pc = "classify"
    /\ LET st == VerifyLoop([already |-> <<>>, notm |-> <<>>, out |-> out],
                            df, 0, existing_members, member_details)
       IN  /\ already_members' = st.already
           /\ not_members' = st.notm
           /\ out' = st.out \o
                 << Ev("Total participants", <<Len(df.rows)>>),
                    Ev("Already organization members", <<Len(st.already)>>),
                    Ev("Not members", <<Len(st.notm)>>),
                    IF st.already # <<>> THEN Ev("WARNING: already members", <<>>)
                    ELSE Ev("All participants are NOT currently members", <<>>) >>
    /\ pc' = "done"
    /\ term' = "returned"
    /\ UNCHANGED <<script, api_key, pennsieve_host, org_id, df, existing_members,
                   member_details, response, net>>
    /\ UNCHANGED notVerify

-----------------------------------------------------------------------------
\* send_invites.py

\* Variables only gen and verify write
notSend == <<email_col, existing_members, member_details, uninvited_mask,
             invited_count, uninvited_count, already_members, not_members, file>>

DefaultPermission == "manager"
CustomMessage     == "Welcome to the Pennsieve Hackathon"

\* main(), settings and arguments: API_KEY, PENNSIEVE_HOST and ORG_ID are
\* required; the permission is the second argument or the default
SendConfig ==
    /\ script = "send" /\ pc = "start"
    /\ \E env \in Envs, envfile \in EnvFiles :
          /\ api_key' = Setting(env, envfile, "API_KEY")
          /\ pennsieve_host' = Setting(env, envfile, "PENNSIEVE_HOST")
          /\ org_id' = Setting(env, envfile, "ORG_ID")
          /\ permission' \in {DefaultPermission, "viewer"}
          /\ IF Falsy(api_key') THEN Exit1("ERROR: API_KEY not set")
             ELSE IF Falsy(pennsieve_host') THEN Exit1("ERROR: PENNSIEVE_HOST not set")
             ELSE IF Falsy(org_id') THEN Exit1("ERROR: ORG_ID not set")
             ELSE /\ pc' = "input"
                  /\ UNCHANGED <<term, out>>
    /\ UNCHANGED <<script, df, answer, invites, payload, result, response, net>>
    /\ UNCHANGED notSend

\* main(), input: the CSV must exist, is read and listed
SendLoad ==
    /\ script = "send" /\ pc = "input"
    /\ \/ /\ Exit1("ERROR: CSV file not found")
          /\ UNCHANGED df
       \/ \E t \in Tables :
             /\ df' = t
             /\ out' = Append(out, Ev("Found users to invite", <<Len(t.rows)>>))
             /\ pc' = "confirm"
             /\ term' = term
    /\ UNCHANGED <<script, api_key, pennsieve_host, org_id, permission, answer,
                   invites, payload, result, response, net>>
    /\ UNCHANGED notSend

\* Confirmed with the answer trimmed before the comparison
ConfirmedTrimmed(a) == Lower(Strip(a)) = s_yes

\* line 132: the answer counts as a confirmation
Confirmed(a) == Lower(a) = s_yes

\* main(), lines 130-134: ask the operator
SendConfirm ==
    /\ script = "send" /\ pc = "confirm"
    /\ \E a \in Answers :
          /\ answer' = a
          /\ IF Confirmed(a)
             THEN /\ out' = Append(out, Ev("Proceed with sending invites?", <<>>))
                  /\ pc' = "prepare"
                  /\ term' = term
             ELSE /\ out' = out \o << Ev("Proceed with sending invites?", <<>>),
                                      Ev("Aborted.", <<>>) >>
                  /\ pc' = "done"
                  /\ term' = "returned"
    /\ UNCHANGED <<script, api_key, pennsieve_host, org_id, permission, df,
                   invites, payload, result, response, net>>
    /\ UNCHANGED notSend

\* SendNoEmail comparing with 'nan' without lower-casing
SendNoEmailCaseSensitive(email) == Falsy(email) \/ email = s_nan

\* lines 139 and 147: the email of a row, and whether the row has none
SendEmail(d, row)  == Strip(Str(RowGet(d, row, s_Email, <<>>)))
SendNoEmail(email) == Falsy(email) \/ Lower(email) = s_nan

\* lines 143-145: first and last name
FirstName(name) == LET name_parts == Split1(name)
                   IN  IF Len(name_parts) > 0 THEN name_parts[1] ELSE <<>>
LastName(name)  == LET name_parts == Split1(name)
                   IN  IF Len(name_parts) > 1 THEN name_parts[2] ELSE <<>>

\* one iteration of the loop of lines 138-156 for the row at 0-based index idx
SendStep(st, d, idx) ==
    LET row   == d.rows[idx + 1]
        email == SendEmail(d, row)
        name  == RowName(d, row)
    IN  IF SendNoEmail(email)
        THEN [st EXCEPT !.out = Append(@, Ev("Skipping row", <<idx + 1>>))]
        ELSE [st EXCEPT !.invites =
                 Append(@, [email |-> email, first_name |-> FirstName(name),
                            last_name |-> LastName(name), invite_role |-> "1"])]

RECURSIVE SendLoop(_, _, _)
SendLoop(st, d, idx) ==
    IF idx >= Len(d.rows) THEN st
    ELSE SendLoop(SendStep(st, d, idx), d, idx + 1)

\* main(), lines 136-156: prepare the invites
SendPrepare ==
    /\ script = "send" /\ pc = "prepare"
    /\ LET st == SendLoop([invites |-> <<>>, out |-> out], df, 0)
       IN  /\ invites' = st.invites
           /\ out' = st.out
    /\ pc' = "send"
    /\ UNCHANGED <<script, term, api_key, pennsieve_host, org_id, permission, df,
                   answer, payload, result, response, net>>
    /\ UNCHANGED notSend

\* BatchPayload with the batch's role put in every invite's inviteRole
BatchPayloadRoleInInvites(invs, role, custom_message) ==
    [invites |-> [i \in 1..Len(invs) |->
                    [firstName     |-> invs[i].first_name,
                     lastName      |-> invs[i].last_name,
                     email         |-> invs[i].email,
                     customMessage |-> custom_message,
                     inviteRole    |-> role]],
     role    |-> role,
     built   |-> TRUE]

\* send_invites_batch, lines 29-43: the payload of the batch
BatchPayload(invs, role, custom_message) ==
    [invites |-> [i \in 1..Len(invs) |->
                    [firstName     |-> invs[i].first_name,
                     lastName      |-> invs[i].last_name,
                     email         |-> invs[i].email,
                     customMessage |-> custom_message,
                     inviteRole    |-> invs[i].invite_role]],
     role    |-> role,
     built   |-> TRUE]

\* send_invites_batch(base_url, org_id, invites, api_key, role)
SendBatch ==
    /\ script = "send" /\ pc = "send"
    /\ payload' = BatchPayload(invites, permission, CustomMessage)
    /\ net' = Append(net, Call("POST", pennsieve_host, org_id, payload'))
    /\ \E o \in PostOutcomes :
          /\ response' = o
          /\ IF o.kind = "error" \/ RaisesForStatus(o)
             THEN /\ result' = [success |-> FALSE, set |-> TRUE]
                  /\ out' = out \o << Ev("Sending invites", <<Len(invites)>>),
                                      Ev("Failed to send invites", <<>>) >>
                  /\ pc' = "summary"
                  /\ term' = term
             ELSE IF ~o.isJson
             THEN \* response.json() raises: a RequestException from requests
                  \* 2.27 on, a plain ValueError before
                  \/ /\ result' = [success |-> FALSE, set |-> TRUE]
                     /\ out' = out \o << Ev("Sending invites", <<Len(invites)>>),
                                         Ev("Failed to send invites", <<>>) >>
                     /\ pc' = "summary"
                     /\ term' = term
                  \/ /\ Uncaught
                     /\ out' = Append(out, Ev("Sending invites", <<Len(invites)>>))
                     /\ UNCHANGED result
             ELSE /\ result' = [success |-> TRUE, set |-> TRUE]
                  /\ out' = out \o << Ev("Sending invites", <<Len(invites)>>),
                                      Ev("Successfully sent invites", <<>>) >>
                  /\ pc' = "summary"
                  /\ term' = term
    /\ UNCHANGED <<script, api_key, pennsieve_host, org_id, permission, df,
                   answer, invites>>
    /\ UNCHANGED notSend

\* main(), lines 167-175: the summary
SendSummary ==
    /\ script = "send" /\ pc = "summary"
    /\ out' = Append(out, IF result.success
                          THEN Ev("Summary: Successfully sent", <<Len(invites)>>)
                          ELSE Ev("Summary: Failed to send invites", <<>>))
    /\ pc' = "done"
    /\ term' = "returned"
    /\ UNCHANGED <<script, api_key, pennsieve_host, org_id, permission, df,
                   answer, invites, payload, result, response, net>>
    /\ UNCHANGED notSend

-----------------------------------------------------------------------------
\* preview_payload.py

\* Variables only gen, verify and send write
notPreview == <<api_key, permission, email_col, answer, existing_members,
                member_details, uninvited_mask, invited_count, uninvited_count,
                already_members, not_members, result, response, net, file>>

\* lines 33-34: the role and the message of the preview
PreviewPermission    == "manager"
PreviewCustomMessage == "Welcome to the Pennsieve Hackathon"

\* main(), settings: the host and the organization are read and not checked
PreviewConfig ==
    /\ script = "preview" /\ pc = "start"
    /\ \E env \in Envs, envfile \in EnvFiles :
          /\ pennsieve_host' = Setting(env, envfile, "PENNSIEVE_HOST")
          /\ org_id' = Setting(env, envfile, "ORG_ID")
    /\ pc' = "input"
    /\ UNCHANGED <<script, term, df, invites, payload, out>>
    /\ UNCHANGED notPreview

\* main(), input: the CSV must exist and is read
PreviewLoad ==
    /\ script = "preview" /\ pc = "input"
    /\ \/ /\ Exit1("ERROR: CSV file not found")
          /\ UNCHANGED df
       \/ \E t \in Tables :
             /\ df' = t
             /\ out' = Append(out, Ev("Found users to invite", <<Len(t.rows)>>))
             /\ pc' = "build"
             /\ term' = term
    /\ UNCHANGED <<script, pennsieve_host, org_id, invites, payload>>
    /\ UNCHANGED notPreview

\* lines 54 and 62: the email of a row, and whether the row has none
PreviewEmail(d, row)  == Strip(Str(RowGet(d, row, s_Email, <<>>)))
PreviewNoEmail(email) == Falsy(email) \/ Lower(email) = s_nan

\* one iteration of the loop of lines 53-72 for the row at 0-based index idx
PreviewStep(st, d, idx) ==
    LET row        == d.rows[idx + 1]
        email      == PreviewEmail(d, row)
        name       == RowName(d, row)
        name_parts == Split1(name)
        first_name == IF Len(name_parts) > 0 THEN name_parts[1] ELSE <<>>
        last_name  == IF Len(name_parts) > 1 THEN name_parts[2] ELSE <<>>
    IN  IF PreviewNoEmail(email)
        THEN [st EXCEPT !.out = Append(@, Ev("Skipping row", <<idx + 1>>))]
        ELSE [st EXCEPT !.invites =
                 Append(@, [firstName     |-> first_name,
                            lastName      |-> last_name,
                            email         |-> email,
                            customMessage |-> PreviewCustomMessage,
                            inviteRole    |-> "1"])]

RECURSIVE PreviewLoop(_, _, _)
PreviewLoop(st, d, idx) ==
    IF idx >= Len(d.rows) THEN st
    ELSE PreviewLoop(PreviewStep(st, d, idx), d, idx + 1)

\* lines 74-78: the payload of the preview
PreviewPayload(invs) ==
    [invites |-> invs, role |-> PreviewPermission, built |-> TRUE]

\* main(), lines 51-103: build the payload and print it
PreviewBuild ==
    /\ script = "preview" /\ pc = "build"
    /\ LET st == PreviewLoop([invites |-> <<>>, out |-> out], df, 0)
       IN  /\ invites' = st.invites
           /\ payload' = PreviewPayload(st.invites)
           /\ out' = st.out \o << Ev("Endpoint: POST", <<pennsieve_host, org_id>>),
                                  Ev("PAYLOAD", <<Len(st.invites)>>) >>
    /\ pc' = "done"
    /\ term' = "returned"
    /\ UNCHANGED <<script, pennsieve_host, org_id, df>>
    /\ UNCHANGED notPreview

Next ==
    \/ GenConfig \/ GenLoad \/ GenFetch \/ GenClassify \/ GenWrite
    \/ VerifyConfig \/ VerifyLoad \/ VerifyFetch \/ VerifyClassify
    \/ SendConfig \/ SendLoad \/ SendConfirm \/ SendPrepare \/ SendBatch \/ SendSummary
    \/ PreviewConfig \/ PreviewLoad \/ PreviewBuild

Spec == Init /\ [][Next]_vars

-----------------------------------------------------------------------------
\* The reference classification rule of the specification

Rows == 1..Len(df.rows)

HasColumn(name) == \E j \in 1..Len(df.columns) : df.columns[j] = name

\* the email cell of row i as the running script looks it up; NaN when the
\* table has no such column
RowEmailCell(i) ==
    IF script = "gen" THEN df.rows[i][email_col]
    ELSE IF HasColumn(s_Email)
    THEN df.rows[i][CHOOSE j \in 1..Len(df.columns) : df.columns[j] = s_Email]
    ELSE NaN

\* missing, blank after trimming, or 'nan' after lower-casing: None
RefNormalize(cell) ==
    IF cell = NaN THEN None
    ELSE LET s == Lower(Strip(cell))
         IN  IF s = <<>> \/ s = s_nan THEN None ELSE s

RefClass(i) ==
    LET e == RefNormalize(RowEmailCell(i))
    IN  IF e = None THEN "skipped"
        ELSE IF e \in existing_members THEN "member" ELSE "invite"

RefSet(class) == {i \in Rows : RefClass(i) = class}

\* the uninvited-list script has classified the rows
GenClassified ==
    script = "gen" /\ (pc = "report" \/ (pc = "done" /\ term = "returned"))

\* the verification script has classified the rows
VerifyClassified == script = "verify" /\ pc = "done" /\ term = "returned"

\* the report lines the verification loop prints, one kind per branch
IsRowLine(e) == e.k \in {"Skipping row", "ALREADY A MEMBER", "NOT A MEMBER"}
RowLines == SelectSeq(out, IsRowLine)
LinesOf(kind) == {i \in 1..Len(RowLines) : RowLines[i].k = kind}

\* the rows of the mask that are True
MaskTrue == {i \in 1..Len(uninvited_mask) : uninvited_mask[i]}

-----------------------------------------------------------------------------
\* C1: the classification loops of the uninvited-list script and of the
\* verification script put every row in exactly one of the partitions 'needs
\* invite', 'already member' and 'skipped': in gen the mask has one entry per
\* row, the True entries are the 'needs invite' rows and are disjoint from the
\* rows without email, and the three sizes add up to the number of rows; in
\* verify every row gets exactly one report line, in row order, and the two
\* lists and the skipped lines add up to the number of rows.
C1_Partition ==
    /\ GenClassified =>
          /\ Len(uninvited_mask) = Len(df.rows)
          /\ uninvited_count = Cardinality(MaskTrue)
          /\ MaskTrue \cap RefSet("skipped") = {}
          /\ uninvited_count + invited_count + Cardinality(RefSet("skipped"))
                = Len(df.rows)
    /\ VerifyClassified =>
          /\ Len(RowLines) = Len(df.rows)
          /\ \A i \in LinesOf("Skipping row") : RowLines[i].a = <<i>>
          /\ Len(already_members) = Cardinality(LinesOf("ALREADY A MEMBER"))
          /\ Len(not_members) = Cardinality(LinesOf("NOT A MEMBER"))
          /\ Len(already_members) + Len(not_members)
                + Cardinality(LinesOf("Skipping row")) = Len(df.rows)

\* C1 witness: a classified table with a row in each of two partitions and a
\* skipped row among them
C1_Witness ==
    /\ GenClassified
    /\ Len(df.rows) = MaxRows
    /\ RefSet("skipped") # {}
    /\ uninvited_count + invited_count > 0

\* C2: the classifier agrees with the reference rule row by row: a row whose
\* email normalizes to None is skipped whatever the index holds, a row whose
\* normalized email is a key of the index is 'already member', any other row
\* is 'needs invite'.
C2_ReferenceRule ==
    /\ GenClassified =>
          /\ \A i \in Rows : uninvited_mask[i] <=> (RefClass(i) = "invite")
          /\ invited_count = Cardinality(RefSet("member"))
          /\ uninvited_count = Cardinality(RefSet("invite"))
    /\ VerifyClassified =>
          /\ Len(RowLines) = Len(df.rows)
          /\ \A i \in Rows :
                /\ RefClass(i) = "skipped" <=> RowLines[i].k = "Skipping row"
                /\ RefClass(i) = "member"  <=> RowLines[i].k = "ALREADY A MEMBER"
                /\ RefClass(i) = "invite"  <=> RowLines[i].k = "NOT A MEMBER"
                /\ RefClass(i) # "skipped" =>
                      RowLines[i].a[2] = RefNormalize(RowEmailCell(i))

\* C2 witness: the verification script classified a table holding a skipped
\* row and a 'needs invite' row while the index has the key 'nan'
C2_Witness ==
    /\ VerifyClassified
    /\ s_nan \in existing_members
    /\ RefSet("skipped") # {}
    /\ RefSet("invite") # {}

-----------------------------------------------------------------------------
\* the network calls issued so far that are POSTs
Posts == {i \in 1..Len(net) : net[i].method = "POST"}

Prompted == \E j \in 1..Len(out) : out[j].k = "Proceed with sending invites?"

\* C3 as stated: the POST is issued only after the answer "yes", and any
\* other answer ends the run with no POST, no invite and no payload.
C3_OnlyLiteralYes ==
    script = "send" =>
       /\ Posts # {} => Prompted /\ answer = s_yes
       /\ (answer # None /\ answer # s_yes) =>
             /\ pc = "done" /\ term = "returned"
             /\ net = <<>> /\ invites = <<>> /\ ~payload.built

\* C3 amended: the POST is issued only after the operator was prompted and
\* gave an answer that reads "yes" once lower-cased (any letter case, nothing
\* trimmed); any other answer ends the run normally with no network call, no
\* invite prepared and no payload built.
C3_YesAnyCase ==
    script = "send" =>
       /\ Posts # {} => Prompted /\ answer # None /\ Lower(answer) = s_yes
       /\ (answer # None /\ Lower(answer) # s_yes) =>
             /\ pc = "done" /\ term = "returned"
             /\ net = <<>> /\ invites = <<>> /\ ~payload.built

\* C3 witness: the POST went out after the answer "YES"
C3_Witness ==
    script = "send" /\ Posts # {} /\ answer = <<"Y","E","S">>

\* an email that is non-empty after trimming and is not 'nan' in any case
Resolvable(email) == Strip(email) # <<>> /\ Lower(Strip(email)) # s_nan

\* C4: every entry of the payload the sending script POSTs and the preview
\* script prints has an email that is non-empty after trimming and is not the
\* string 'nan' in any letter case.
C4_NoUnresolvableEmail ==
    /\ payload.built =>
          \A k \in 1..Len(payload.invites) : Resolvable(payload.invites[k].email)
    /\ \A i \in Posts :
          \A k \in 1..Len(net[i].body.invites) :
              Resolvable(net[i].body.invites[k].email)

\* C4 witness: a POST whose payload has an entry, from a table with a row
\* that has no resolvable email
C4_Witness ==
    /\ script = "send" /\ Posts # {}
    /\ Len(payload.invites) > 0
    /\ RefSet("skipped") # {}

\* the settings a script reads that the environment and the file both lack
MissingSetting ==
    CASE script = "gen"     -> api_key = None
      [] script = "preview" -> pennsieve_host = None \/ org_id = None
      [] OTHER              -> api_key = None \/ pennsieve_host = None \/ org_id = None

\* C5 as stated: in each of the four scripts a run in which a required
\* setting is absent from the environment and from the file ends with
\* sys.exit(1) and a message, with no network call, payload or output file.
C5_MissingSettingAborts ==
    (pc # "start" /\ MissingSetting) =>
       /\ pc = "done" /\ term = "exit1"
       /\ out # <<>>
       /\ net = <<>> /\ ~payload.built /\ ~file.written

\* the last request failed: a transport error or a response outside 2xx
RequestFailed == response.kind = "error"
             \/ (response.kind = "response"
                 /\ (response.status < 200 \/ response.status >= 300))

\* C6 as stated: in gen and verify a failed membership GET ends the run with
\* a non-zero exit status; no row is classified, no summary is printed and no
\* file is written.
C6_FailedGetAborts ==
    (script \in {"gen", "verify"} /\ RequestFailed) =>
       /\ pc = "done" /\ term \in {"exit1", "uncaught"}
       /\ uninvited_mask = <<>> /\ already_members = <<>> /\ not_members = <<>>
       /\ RowLines = <<>>
       /\ ~file.written

\* C7 as stated: the sending script POSTs at most once, and a failed POST
\* (transport error or response outside 2xx) comes back as a failure result,
\* is reported in the summary, and the run returns normally.
C7_FailedPostReported ==
    script = "send" =>
       /\ Cardinality(Posts) <= 1
       /\ RequestFailed =>
             /\ term \in {"running", "returned"}
             /\ result.set /\ ~result.success
             /\ pc = "done" =>
                   out[Len(out)] = Ev("Summary: Failed to send invites", <<>>)

\* the run has gone through its rows and returned normally
RowsProcessed ==
    /\ pc = "done" /\ term = "returned"
    /\ script = "send" => payload.built

\* C8 as stated: when rows were skipped for an unresolvable email, the run's
\* output names each of them and shows how many they are.
C8_SkippedCountedAndReported ==
    (RowsProcessed /\ RefSet("skipped") # {}) =>
       /\ \A i \in RefSet("skipped") :
             \E j \in 1..Len(out) : out[j] = Ev("Skipping row", <<i>>)
       /\ \E j \in 1..Len(out) :
             /\ out[j].k = "Skipped rows"
             /\ out[j].a = <<Cardinality(RefSet("skipped"))>>

\* the k-th smallest element of a set of numbers
Kth(S, k) == CHOOSE x \in S : Cardinality({y \in S : y < x}) = k - 1

\* C9: the CSV the uninvited-list script writes holds the header of the input
\* and exactly the rows classified 'needs invite', each with every column (a
\* missing value as an empty field), in the order of the input.
C9_CsvIsNeedsInvite ==
    (script = "gen" /\ file.written) =>
       /\ file.header = df.columns
       /\ Len(file.rows) = Cardinality(RefSet("invite"))
       /\ \A k \in 1..Len(file.rows) :
             LET i == Kth(RefSet("invite"), k)
             IN  /\ Len(file.rows[k]) = Len(df.columns)
                 /\ \A j \in 1..Len(df.columns) :
                       IF df.rows[i][j] = NaN THEN file.rows[k][j] = <<>>
                       ELSE file.rows[k][j] = df.rows[i][j]

\* C9 witness: a file with two different rows written from the table
C9_Witness ==
    /\ script = "gen" /\ file.written
    /\ Len(file.rows) = 2
    /\ file.rows[1] # file.rows[2]

\* the rows that reach the payload builder
Reaching == {i \in Rows : RefClass(i) # "skipped"}

\* the name cell of row i; the empty string when the table has no Name column
RowNameCell(i) ==
    IF HasColumn(s_Name)
    THEN df.rows[i][CHOOSE j \in 1..Len(df.columns) : df.columns[j] = s_Name]
    ELSE <<>>

HasSpace(s) == \E j \in 1..Len(s) : s[j] = " "

\* C10: the k-th invite of the payload is built from the k-th row that has a
\* resolvable email: with the name trimmed, a name without a space is the
\* firstName and the lastName is empty; otherwise the name is the firstName, a
\* space and the lastName, and the firstName has no space; the email is the
\* cell trimmed with its case kept; inviteRole is "1".
C10_InviteFields ==
    (script \in {"send", "preview"} /\ payload.built) =>
       /\ Len(payload.invites) = Cardinality(Reaching)
       /\ \A k \in 1..Len(payload.invites) :
             LET i    == Kth(Reaching, k)
                 inv  == payload.invites[k]
                 name == Strip(Str(RowNameCell(i)))
             IN  /\ IF HasSpace(name)
                    THEN /\ name = inv.firstName \o <<" ">> \o inv.lastName
                         /\ ~HasSpace(inv.firstName)
                    ELSE /\ inv.firstName = name
                         /\ inv.lastName = <<>>
                 /\ inv.email = Strip(RowEmailCell(i))
                 /\ inv.inviteRole = "1"

\* C10 witness: a POSTed invite whose lastName begins with a space (the name
\* had two spaces in a row) and whose email keeps an upper-case letter
C10_Witness ==
    /\ script = "send" /\ Posts # {}
    /\ \E k \in 1..Len(payload.invites) :
          /\ payload.invites[k].lastName = <<" ","b">>
          /\ payload.invites[k].email = <<"A","@","x">>

-----------------------------------------------------------------------------
\* the payload the preview script builds from table d
PreviewPayloadOf(d) ==
    PreviewPayload(PreviewLoop([invites |-> <<>>, out |-> <<>>], d, 0).invites)

\* the payload the sending script builds from table d for a role
SendPayloadOf(d, role) ==
    BatchPayload(SendLoop([invites |-> <<>>, out |-> <<>>], d, 0).invites,
                 role, CustomMessage)

\* C11: run on the same table with the default role and message, the preview
\* script and the sending script build the same payload: the body the sending
\* script POSTs has the invites, in order, and the role the preview script
\* builds from the run's table, and the payload the preview script printed has
\* the invites and the role of the body the sending script builds from it.
C11_SamePayload ==
    /\ (script = "send" /\ permission = DefaultPermission) =>
          \A i \in Posts :
             /\ net[i].body.invites = PreviewPayloadOf(df).invites
             /\ net[i].body.role = PreviewPayloadOf(df).role
    /\ (script = "preview" /\ payload.built) =>
          /\ payload.invites = SendPayloadOf(df, DefaultPermission).invites
          /\ payload.role = SendPayloadOf(df, DefaultPermission).role

\* C11 witness: a POST under the default role whose body has an invite and
\* whose table has a row that both builders skip
C11_Witness ==
    /\ script = "send" /\ Posts # {}
    /\ permission = DefaultPermission
    /\ Len(df.rows) = 2
    /\ Len(payload.invites) = 1
    /\ payload.invites[1].lastName # <<>>
====
